---- MODULE Spec2Model ----
(***************************************************************************)
(* Model of the offline data-transformation scripts of the repository:     *)
(*   - apps/web/supabase/scripts/ip-to-location/convert-ip-data.py         *)
(*       ip_range_to_cidrs, get_country_name, process_csv                  *)
(*   - apps/cli/scripts/reset-add-toc.py                                   *)
(*                                                                         *)
(* Python values are encoded uniformly: a str or None is the record        *)
(* [some, s] where s is the sequence of its characters (None has           *)
(* some = FALSE).  Address widths and the size of one "MB" are scaled down *)
(* so that bounded runs exercise range summarisation and the rotation of   *)
(* partitions; the text of an address is its decimal value, prefixed by    *)
(* ":" for the wide family (the analogue of dotted-quad and colon-hex).    *)
(***************************************************************************)
EXTENDS Integers, Sequences, FiniteSets, TLC

VARIABLES
    \* ---- ip_range_to_cidrs called on its own
    cidrPc, start_ip, end_ip, cidrs,
    \* ---- process_csv
    pc, max_size_mb, row_count, output_count, error_count, file_count,
    current_file_size, csv_files, files, openSet, opened, consumed,
    pending, lastRows, merged, mergedCreated, loopExit, outfile,
    \* ---- reset-add-toc
    tocPc, disk, disk0, dry_run, todo, updated, written, run, prevDry,
    prevUpdated

cidrVars == <<cidrPc, start_ip, end_ip, cidrs>>
csvVars == <<pc, max_size_mb, row_count, output_count, error_count, file_count,
             current_file_size, csv_files, files, openSet, opened, consumed,
             pending, lastRows, merged, mergedCreated, loopExit, outfile>>
tocVars == <<tocPc, disk, disk0, dry_run, todo, updated, written, run, prevDry,
             prevUpdated>>
vars == <<cidrVars, csvVars, tocVars>>

-----------------------------------------------------------------------------
\* Bounds of the model

\* width of an address of the narrow family (32 in the library)
V4Bits == 3
\* width of an address of the wide family (128 in the library)
V6Bits == 4
\* bytes in one "MB" of --max-size (1024 * 1024 in the script)
BytesPerMB == 16
\* largest --max-size tried
MaxSizeMB == 2
\* most input records read by one run
MaxRecords == 3
\* most index.json files under the data root
MaxFiles == 2
\* longest applied_actions list
MaxActions == 2

\* the "+ 10 for commas/newline" of the row-size estimate
RowOverhead == 10

-----------------------------------------------------------------------------
\* Python values

None == [some |-> FALSE, s |-> <<>>]
Str(s) == [some |-> TRUE, s |-> s]
\* truth value of a str-or-None
Truthy(v) == v.some /\ v.s # <<>>

Min(a, b) == IF a <= b THEN a ELSE b

RECURSIVE Pow2(_)
Pow2(n) == IF n = 0 THEN 1 ELSE 2 * Pow2(n - 1)

Digits == <<"0", "1", "2", "3", "4", "5", "6", "7", "8", "9">>
IsDigit(c) == \E i \in 1..10 : Digits[i] = c
DigitVal(c) == (CHOOSE i \in 1..10 : Digits[i] = c) - 1

\* str(n) of a non-negative int
RECURSIVE Dec(_)
Dec(n) == IF n < 10 THEN <<Digits[n + 1]>>
          ELSE Dec(n \div 10) \o <<Digits[(n % 10) + 1]>>

IsDecimal(s) == s # <<>> /\ \A i \in 1..Len(s) : IsDigit(s[i])

\* int(s) of a decimal string
RECURSIVE DecVal(_)
DecVal(s) == IF s = <<>> THEN 0
             ELSE 10 * DecVal(SubSeq(s, 1, Len(s) - 1)) + DigitVal(s[Len(s)])

\* str.upper() on the letters the inputs use
Upper(c) == CASE c = "u" -> "U" [] c = "s" -> "S" [] c = "z" -> "Z"
              [] c = "n" -> "N" [] c = "a" -> "A" [] OTHER -> c
UpperStr(s) == [i \in DOMAIN s |-> Upper(s[i])]

-----------------------------------------------------------------------------
\* ipaddress: addresses, networks and range summarisation

Bits(ver) == IF ver = 4 THEN V4Bits ELSE V6Bits
AllOnes(ver) == Pow2(Bits(ver)) - 1

\* the text of an address
AddrText(ver, ip) == IF ver = 4 THEN Dec(ip) ELSE <<":">> \o Dec(ip)
\* str(network)
NetworkStr(net) == AddrText(net.ver, net.ip) \o <<"/">> \o Dec(net.prefix)

Raise(e) == [exc |-> e, ver |-> 0, ip |-> 0]
Address(ver, ip) == [exc |-> "none", ver |-> ver, ip |-> ip]

\* ipaddress.ip_address(address): an address object, or ValueError
ip_address(address) ==
    IF ~address.some THEN Raise("ValueError")
    ELSE LET s == address.s IN
         IF IsDecimal(s) /\ DecVal(s) <= AllOnes(4)
         THEN Address(4, DecVal(s))
         ELSE IF s # <<>> /\ Head(s) = ":" /\ IsDecimal(Tail(s))
                 /\ DecVal(Tail(s)) <= AllOnes(6)
         THEN Address(6, DecVal(Tail(s)))
         ELSE Raise("ValueError")

\* number of trailing zero bits of number, bits when number = 0
RECURSIVE count_righthand_zero_bits(_, _)
count_righthand_zero_bits(number, bits) ==
    IF number = 0 THEN bits
    ELSE IF number % 2 = 1 THEN 0
    ELSE Min(bits, 1 + count_righthand_zero_bits(number \div 2, bits - 1))

\* int.bit_length()
RECURSIVE bit_length(_)
bit_length(n) == IF n = 0 THEN 0 ELSE 1 + bit_length(n \div 2)

\* the loop of summarize_address_range, from first_int up to last_int
RECURSIVE SummarizeLoop(_, _, _)
SummarizeLoop(ver, first_int, last_int) ==
    IF first_int > last_int THEN <<>>
    ELSE LET nbits == Min(count_righthand_zero_bits(first_int, Bits(ver)),
                          bit_length(last_int - first_int + 1) - 1)
             net == [ver |-> ver, ip |-> first_int, prefix |-> Bits(ver) - nbits]
             next == first_int + Pow2(nbits)
         IN  <<net>> \o (IF next - 1 = AllOnes(ver) THEN <<>>
                         ELSE SummarizeLoop(ver, next, last_int))

\* ipaddress.summarize_address_range(first, last)
summarize_address_range(first, last) ==
    IF first.ver # last.ver THEN [exc |-> "TypeError", nets |-> <<>>]
    ELSE IF first.ip > last.ip THEN [exc |-> "ValueError", nets |-> <<>>]
    ELSE [exc |-> "none", nets |-> SummarizeLoop(first.ver, first.ip, last.ip)]

\* the conversion that takes end_ip as the first address after the range
ip_range_to_cidrs_EndExclusive(a, b) ==
    LET start == ip_address(a)
        end == ip_address(b)
    IN  IF start.exc = "ValueError" \/ end.exc = "ValueError"
        THEN [exc |-> "none", cidrs |-> <<>>]
        ELSE LET r == summarize_address_range(start, [end EXCEPT !.ip = @ - 1]) IN
             IF r.exc = "ValueError" THEN [exc |-> "none", cidrs |-> <<>>]
             ELSE IF r.exc = "TypeError" THEN [exc |-> "TypeError", cidrs |-> <<>>]
             ELSE [exc |-> "none",
                   cidrs |-> [i \in DOMAIN r.nets |-> NetworkStr(r.nets[i])]]

\* ip_range_to_cidrs(start_ip, end_ip): the list it returns, or the exception
\* that leaves it (ValueError is caught and turned into the empty list)
ip_range_to_cidrs(a, b) ==
    LET start == ip_address(a)
        end == ip_address(b)
    IN  IF start.exc = "ValueError" \/ end.exc = "ValueError"
        THEN [exc |-> "none", cidrs |-> <<>>]
        ELSE LET r == summarize_address_range(start, end) IN
             IF r.exc = "ValueError" THEN [exc |-> "none", cidrs |-> <<>>]
             ELSE IF r.exc = "TypeError" THEN [exc |-> "TypeError", cidrs |-> <<>>]
             ELSE [exc |-> "none",
                   cidrs |-> [i \in DOMAIN r.nets |-> NetworkStr(r.nets[i])]]

-----------------------------------------------------------------------------
\* Values the variables of a script hold while another script is modelled

CidrIdle ==
    /\ cidrPc = "idle" /\ start_ip = None /\ end_ip = None
    /\ cidrs = [exc |-> "none", cidrs |-> <<>>]

CsvIdle ==
    /\ pc = "idle" /\ max_size_mb = 0 /\ row_count = 0 /\ output_count = 0
    /\ error_count = 0 /\ file_count = 0 /\ current_file_size = 0
    /\ csv_files = <<>> /\ files = <<>> /\ openSet = {} /\ opened = <<>>
    /\ consumed = <<>> /\ pending = <<>> /\ lastRows = <<>> /\ merged = <<>>
    /\ mergedCreated = FALSE /\ loopExit = "none" /\ outfile = 0

TocIdle ==
    /\ tocPc = "idle" /\ disk = <<>> /\ disk0 = <<>> /\ dry_run = FALSE
    /\ todo = {} /\ updated = 0 /\ written = {} /\ run = 0
    /\ prevDry = FALSE /\ prevUpdated = 0

-----------------------------------------------------------------------------
\* ip_range_to_cidrs on its own: any two texts in, one call

\* texts that are no address: empty, a word, a bare family mark, out of range
BadTexts == {<<>>, <<"x">>, <<":">>, Dec(AllOnes(6) + 1), <<":">> \o Dec(AllOnes(6) + 1)}

AddrTexts(ver) == {AddrText(ver, ip) : ip \in 0..AllOnes(ver)}

Texts == {Str(s) : s \in AddrTexts(4) \cup AddrTexts(6) \cup BadTexts} \cup {None}

CidrInit ==
    /\ cidrPc = "call"
    /\ start_ip \in Texts
    /\ end_ip \in Texts
    /\ cidrs = [exc |-> "none", cidrs |-> <<>>]
    /\ CsvIdle /\ TocIdle

CallIpRangeToCidrs ==
    /\ cidrPc = "call"
    /\ cidrs' = ip_range_to_cidrs(start_ip, end_ip)
    /\ cidrPc' = "returned"
    /\ UNCHANGED <<start_ip, end_ip, csvVars, tocVars>>

CidrNext == CallIpRangeToCidrs

SpecCidr == CidrInit /\ [][CidrNext]_vars

-----------------------------------------------------------------------------
\* process_csv: the input

NA == <<"N", "A">>
EUX == <<"E", "U", "X">>
us == <<"u", "s">>
ZZ == <<"Z", "Z">>
CA == <<"C", "A">>
LA == <<"L", "A">>

\* the lines of the input file tried, each the list of its columns
InputLines == {
    << <<"1">>, <<"1">>, NA, us, CA, LA >>,
    << <<"1">>, <<"4">>, EUX, ZZ, <<>>, <<>> >>,
    << <<":", "2">>, <<":", "3">>, <<>>, <<>>, <<>>, <<>> >>,
    << <<"0">>, <<"7">>, NA, us, CA, LA >>,
    << <<"1">>, <<"1">>, NA, <<>>, <<"C">>, <<>> >>,
    << <<"5">>, <<"2">>, NA, us, CA, LA >>,
    << <<"1">>, <<":", "1">>, NA, us, <<>>, <<>> >>,
    << <<"x">>, <<"1">>, NA, us, <<>>, <<>> >>,
    << <<"1">>, <<"4">>, NA, us >>,
    << <<"1">>, <<"1">>, NA >>,
    << <<"1">>, <<"1">> >>,
    << <<"1">> >> }

Column(line, i) == IF i <= Len(line) THEN Str(line[i]) ELSE None

\* csv.DictReader(infile, fieldnames): a column the line lacks is None
DictReaderRow(line) ==
    [ip_start |-> Column(line, 1), ip_end |-> Column(line, 2),
     continent |-> Column(line, 3), country |-> Column(line, 4),
     stateprov |-> Column(line, 5), city |-> Column(line, 6)]

\* COUNTRY_NAMES: code (upper-cased) -> name, loaded from the countries file
COUNTRY_NAMES == (<<"U", "S">> :> <<"U", ".", "S", ".">>)

get_country_name(country_code) ==
    IF UpperStr(country_code) \in DOMAIN COUNTRY_NAMES
    THEN COUNTRY_NAMES[UpperStr(country_code)]
    ELSE country_code

\* "Get values, handling empty strings": the five descriptive values of a
\* row, or the AttributeError of None.upper()
Enrich(row) ==
    IF ~row.country.some
    THEN [exc |-> "AttributeError", continent_code |-> None, country_code |-> None,
          country_name |-> None, region_name |-> None, city_name |-> None]
    ELSE LET country_code == UpperStr(row.country.s) IN
         [exc |-> "none",
          continent_code |-> IF Truthy(row.continent)
                             THEN Str(SubSeq(row.continent.s, 1,
                                             Min(2, Len(row.continent.s))))
                             ELSE Str(<<>>),
          country_code |-> Str(country_code),
          country_name |-> IF country_code # <<>>
                           THEN Str(get_country_name(country_code))
                           ELSE Str(<<>>),
          region_name |-> IF Truthy(row.stateprov) THEN row.stateprov ELSE None,
          city_name |-> IF Truthy(row.city) THEN row.city ELSE None]

RowData(cidr, e) ==
    <<Str(cidr), e.continent_code, e.country_code, e.country_name,
      e.region_name, e.city_name>>

\* sum(len(str(x)) if x else 0 for x in row_data) + 10
RECURSIVE SumLen(_)
SumLen(row_data) ==
    IF row_data = <<>> THEN 0
    ELSE (IF Truthy(Head(row_data)) THEN Len(Head(row_data).s) ELSE 0)
         + SumLen(Tail(row_data))
\* the estimate without the allowance for commas and newline
RowSize_NoOverhead(row_data) == SumLen(row_data)
RowSize(row_data) == SumLen(row_data) + RowOverhead

\* the line csv.writer writes for a row (None becomes the empty field), which
\* is the list csv.reader gives back for it
CsvLine(row_data) ==
    [i \in DOMAIN row_data |-> IF row_data[i].some THEN row_data[i].s ELSE <<>>]

\* the header line of part1, each column name one token
Header == << <<"network">>, <<"continent_code">>, <<"country_code">>,
             <<"country_name">>, <<"region_name">>, <<"city_name">> >>

max_size_bytes == max_size_mb * BytesPerMB

-----------------------------------------------------------------------------
\* process_csv: the run

CsvInit ==
    /\ pc = "start"
    /\ max_size_mb \in (-1)..MaxSizeMB
    /\ row_count = 0 /\ output_count = 0 /\ error_count = 0
    /\ file_count = 1 /\ current_file_size = 0
    /\ csv_files = <<>> /\ files = <<>> /\ openSet = {} /\ opened = <<>>
    /\ outfile = 0
    /\ consumed = <<>> /\ pending = <<>> /\ lastRows = <<>>
    /\ merged = <<>> /\ mergedCreated = FALSE /\ loopExit = "none"
    /\ CidrIdle /\ TocIdle

\* open_new_file(part_num), given the files and the open files before it
open_new_file(part_num, filesBefore, openBefore) ==
    /\ csv_files' = Append(csv_files, part_num)
    /\ files' = (part_num :> (IF part_num = 1 THEN <<Header>> ELSE <<>>))
                    @@ filesBefore
    /\ openSet' = openBefore \cup {part_num}
    /\ opened' = Append(opened, part_num)
    /\ current_file_size' = 0
    /\ outfile' = part_num

\* leaving the loop without the finally clause
LeaveLoop_NoFinally(e, next) ==
    /\ openSet' = openSet
    /\ loopExit' = e
    /\ pc' = next

\* the finally clause, leaving the loop by e
LeaveLoop(e, next) ==
    /\ openSet' = openSet \ {outfile}
    /\ loopExit' = e
    /\ pc' = next

\* "Open first file"
OpenFirstFile ==
    /\ pc = "start"
    /\ open_new_file(file_count, files, openSet)
    /\ pc' = "loop"
    /\ UNCHANGED <<max_size_mb, row_count, output_count, error_count, file_count,
                   consumed, pending, lastRows, merged, mergedCreated, loopExit,
                   cidrVars, tocVars>>

\* the first file cannot be opened: the run ends before the loop
OpenFirstFileFails ==
    /\ pc = "start"
    /\ csv_files' = Append(csv_files, file_count)
    /\ pc' = "aborted"
    /\ UNCHANGED <<max_size_mb, row_count, output_count, error_count, file_count,
                   current_file_size, files, openSet, opened, outfile, consumed,
                   pending, lastRows, merged, mergedCreated, loopExit,
                   cidrVars, tocVars>>

\* the turn of the loop with the discarded record left uncounted
ReadRecord_ErrorUncounted(line) ==
    /\ pc = "loop"
    /\ Len(consumed) < MaxRecords
    /\ LET row == DictReaderRow(line)
           r == ip_range_to_cidrs(row.ip_start, row.ip_end)
           e == Enrich(row)
       IN  /\ row_count' = row_count + 1
           /\ consumed' = Append(consumed, row)
           /\ lastRows' = <<>>
           /\ IF r.exc # "none"
              THEN /\ LeaveLoop(r.exc, "aborted")
                   /\ UNCHANGED <<error_count, pending>>
              ELSE IF r.cidrs = <<>>
              THEN UNCHANGED <<error_count, pc, pending, openSet, loopExit>>
              ELSE IF e.exc # "none"
              THEN /\ LeaveLoop(e.exc, "aborted")
                   /\ UNCHANGED <<error_count, pending>>
              ELSE /\ pending' = [i \in DOMAIN r.cidrs |-> RowData(r.cidrs[i], e)]
                   /\ pc' = "rows"
                   /\ UNCHANGED <<error_count, openSet, loopExit>>
    /\ UNCHANGED <<max_size_mb, output_count, file_count, current_file_size,
                   csv_files, files, opened, outfile, merged, mergedCreated,
                   cidrVars, tocVars>>

\* one turn of "for row in reader" up to the rows to write
ReadRecord(line) ==
    /\ pc = "loop"
    /\ Len(consumed) < MaxRecords
    /\ LET row == DictReaderRow(line)
           r == ip_range_to_cidrs(row.ip_start, row.ip_end)
           e == Enrich(row)
       IN  /\ row_count' = row_count + 1
           /\ consumed' = Append(consumed, row)
           /\ lastRows' = <<>>
           /\ IF r.exc # "none"
              THEN /\ LeaveLoop(r.exc, "aborted")
                   /\ UNCHANGED <<error_count, pending>>
              ELSE IF r.cidrs = <<>>
              THEN /\ error_count' = error_count + 1
                   /\ UNCHANGED <<pc, pending, openSet, loopExit>>
              ELSE IF e.exc # "none"
              THEN /\ LeaveLoop(e.exc, "aborted")
                   /\ UNCHANGED <<error_count, pending>>
              ELSE /\ pending' = [i \in DOMAIN r.cidrs |-> RowData(r.cidrs[i], e)]
                   /\ pc' = "rows"
                   /\ UNCHANGED <<error_count, openSet, loopExit>>
    /\ UNCHANGED <<max_size_mb, output_count, file_count, current_file_size,
                   csv_files, files, opened, outfile, merged, mergedCreated,
                   cidrVars, tocVars>>

\* reading the input raises
ReadFails ==
    /\ pc = "loop"
    /\ LeaveLoop("OSError", "aborted")
    /\ UNCHANGED <<max_size_mb, row_count, output_count, error_count, file_count,
                   current_file_size, csv_files, files, opened, outfile, consumed,
                   pending, lastRows, merged, mergedCreated, cidrVars, tocVars>>

\* the check that lets a part grow past max_size_bytes before closing it
NeedNewFile_Strict(size) == size > max_size_bytes

\* "Check if we need to start a new file"
NeedNewFile(size) == size >= max_size_bytes

\* the files after writer.writerow(row_data)
FilesAfterWrite(row_data) ==
    [files EXCEPT ![outfile] = Append(@, CsvLine(row_data))]

\* one turn of "for cidr in cidrs": write, count, estimate, rotate
WriteRow ==
    /\ pc = "rows"
    /\ LET row_data == Head(pending)
           size == current_file_size + RowSize(row_data)
       IN  /\ output_count' = output_count + 1
           /\ lastRows' = Append(lastRows, row_data)
           /\ IF NeedNewFile(size)
              THEN /\ file_count' = file_count + 1
                   /\ open_new_file(file_count + 1, FilesAfterWrite(row_data),
                                    openSet \ {outfile})
              ELSE /\ files' = FilesAfterWrite(row_data)
                   /\ current_file_size' = size
                   /\ UNCHANGED <<file_count, csv_files, openSet, opened, outfile>>
    /\ pending' = Tail(pending)
    /\ pc' = IF Tail(pending) = <<>> THEN "loop" ELSE "rows"
    /\ UNCHANGED <<max_size_mb, row_count, error_count, consumed, merged,
                   mergedCreated, loopExit, cidrVars, tocVars>>

\* writer.writerow raises
WriteRowFails ==
    /\ pc = "rows"
    /\ LeaveLoop("OSError", "aborted")
    /\ UNCHANGED <<max_size_mb, row_count, output_count, error_count, file_count,
                   current_file_size, csv_files, files, opened, outfile, consumed,
                   pending, lastRows, merged, mergedCreated, cidrVars, tocVars>>

\* the row is written and the part is full, but the next part cannot be opened
RotateFails ==
    /\ pc = "rows"
    /\ LET row_data == Head(pending)
           size == current_file_size + RowSize(row_data)
       IN  /\ NeedNewFile(size)
           /\ output_count' = output_count + 1
           /\ lastRows' = Append(lastRows, row_data)
           /\ files' = FilesAfterWrite(row_data)
           /\ current_file_size' = size
           /\ file_count' = file_count + 1
           /\ csv_files' = Append(csv_files, file_count + 1)
    /\ LeaveLoop("OSError", "aborted")
    /\ UNCHANGED <<max_size_mb, row_count, error_count, opened, outfile, consumed,
                   pending, merged, mergedCreated, cidrVars, tocVars>>

\* the reader is exhausted
EndOfInput ==
    /\ pc = "loop"
    /\ LeaveLoop("normal", "merge")
    /\ UNCHANGED <<max_size_mb, row_count, output_count, error_count, file_count,
                   current_file_size, csv_files, files, opened, outfile, consumed,
                   pending, lastRows, merged, mergedCreated, cidrVars, tocVars>>

RECURSIVE ReadParts(_)
ReadParts(paths) ==
    IF paths = <<>> THEN <<>> ELSE files[Head(paths)] \o ReadParts(Tail(paths))

\* the merge that writes the header and then every line of every part
MergedLines_HeaderAgain ==
    <<Head(files[csv_files[1]])>> \o ReadParts(csv_files)

\* "Create single merged CSV": the header and the rest of part1, then the
\* other parts
MergedLines ==
    LET part1 == files[csv_files[1]]
    IN  <<Head(part1)>> \o Tail(part1) \o ReadParts(Tail(csv_files))

Merge ==
    /\ pc = "merge"
    /\ merged' = MergedLines
    /\ mergedCreated' = TRUE
    /\ pc' = "done"
    /\ UNCHANGED <<max_size_mb, row_count, output_count, error_count, file_count,
                   current_file_size, csv_files, files, openSet, opened, outfile,
                   consumed, pending, lastRows, loopExit, cidrVars, tocVars>>

\* the merged file cannot be opened
MergeFails ==
    /\ pc = "merge"
    /\ pc' = "aborted"
    /\ UNCHANGED <<max_size_mb, row_count, output_count, error_count, file_count,
                   current_file_size, csv_files, files, openSet, opened, outfile,
                   consumed, pending, lastRows, merged, mergedCreated, loopExit,
                   cidrVars, tocVars>>

CsvNext ==
    \/ OpenFirstFile
    \/ OpenFirstFileFails
    \/ \E line \in InputLines : ReadRecord(line)
    \/ ReadFails
    \/ WriteRow
    \/ WriteRowFails
    \/ RotateFails
    \/ EndOfInput
    \/ Merge
    \/ MergeFails

SpecCsv == CsvInit /\ [][CsvNext]_vars

-----------------------------------------------------------------------------
\* reset-add-toc: the index.json files and the loop over them

Actions == {"add_toc", "add_links"}
Pipelines == {"generate", "enhance"}

RECURSIVE SeqsUpTo(_, _)
SeqsUpTo(S, n) ==
    IF n = 0 THEN {<<>>}
    ELSE LET shorter == SeqsUpTo(S, n - 1)
         IN  shorter \cup {Append(q, x) : q \in shorter, x \in S}

\* the content of an index.json: the two keys the script reads, each present
\* or not; every other key is carried through json.load / json.dump as it is
IndexData ==
    [has_applied : {TRUE}, applied_actions : SeqsUpTo(Actions, MaxActions),
     has_pipeline : {TRUE}, last_pipeline : Pipelines]
    \cup [has_applied : {FALSE}, applied_actions : {<<>>},
          has_pipeline : BOOLEAN, last_pipeline : {"enhance"}]

TocInit ==
    /\ tocPc = "run"
    /\ run = 1
    /\ \E n \in 1..MaxFiles : disk \in [1..n -> IndexData]
    /\ disk0 = disk
    /\ dry_run \in BOOLEAN
    /\ todo = DOMAIN disk
    /\ updated = 0
    /\ written = {}
    /\ prevDry = FALSE /\ prevUpdated = 0
    /\ CidrIdle /\ CsvIdle

\* data.get("applied_actions", [])
AppliedOf(data) == IF data.has_applied THEN data.applied_actions ELSE <<>>

Contains(applied, a) == \E i \in DOMAIN applied : applied[i] = a

\* list.remove: only the first add_toc goes
RECURSIVE RemoveAddToc_FirstOnly(_)
RemoveAddToc_FirstOnly(applied) ==
    IF applied = <<>> THEN <<>>
    ELSE IF Head(applied) = "add_toc" THEN Tail(applied)
    ELSE <<Head(applied)>> \o RemoveAddToc_FirstOnly(Tail(applied))

\* [a for a in applied if a != "add_toc"]
RemoveAddToc(applied) == SelectSeq(applied, LAMBDA a : a # "add_toc")

\* the data after the two assignments
ResetData(data) ==
    [has_applied |-> TRUE, applied_actions |-> RemoveAddToc(AppliedOf(data)),
     has_pipeline |-> TRUE, last_pipeline |-> "generate"]

\* a file without add_toc: continue
SkipFile(f) ==
    /\ tocPc = "run"
    /\ f \in todo
    /\ ~Contains(AppliedOf(disk[f]), "add_toc")
    /\ todo' = todo \ {f}
    /\ UNCHANGED <<tocPc, disk, disk0, dry_run, updated, written, run, prevDry,
                   prevUpdated, cidrVars, csvVars>>

\* a file with add_toc: reset it, write it unless --dry-run, count it
UpdateFile(f) ==
    /\ tocPc = "run"
    /\ f \in todo
    /\ Contains(AppliedOf(disk[f]), "add_toc")
    /\ IF dry_run
       THEN UNCHANGED <<disk, written>>
       ELSE /\ disk' = [disk EXCEPT ![f] = ResetData(disk[f])]
            /\ written' = written \cup {f}
    /\ updated' = updated + 1
    /\ todo' = todo \ {f}
    /\ UNCHANGED <<tocPc, disk0, dry_run, run, prevDry, prevUpdated, cidrVars,
                   csvVars>>

\* the loop ends and the count is printed
Report ==
    /\ tocPc = "run"
    /\ todo = {}
    /\ tocPc' = "done"
    /\ UNCHANGED <<disk, disk0, dry_run, todo, updated, written, run, prevDry,
                   prevUpdated, cidrVars, csvVars>>

\* the script is run once more over the same data root
RunAgain ==
    /\ tocPc = "done"
    /\ run = 1
    /\ run' = 2
    /\ prevDry' = dry_run
    /\ prevUpdated' = updated
    /\ dry_run' \in BOOLEAN
    /\ todo' = DOMAIN disk
    /\ updated' = 0
    /\ written' = {}
    /\ tocPc' = "run"
    /\ UNCHANGED <<disk, disk0, cidrVars, csvVars>>

TocNext ==
    \/ \E f \in DOMAIN disk : SkipFile(f)
    \/ \E f \in DOMAIN disk : UpdateFile(f)
    \/ Report
    \/ RunAgain

SpecToc == TocInit /\ [][TocNext]_vars

-----------------------------------------------------------------------------
\* Reading the outputs back, for the properties below

\* a CIDR text decoded: family, network address, prefix length, address set
SlashAt(s) == CHOOSE i \in 1..Len(s) : s[i] = "/"
CidrVer(s) == IF Head(s) = ":" THEN 6 ELSE 4
CidrBody(s) == IF Head(s) = ":" THEN Tail(s) ELSE s
CidrIp(s) == DecVal(SubSeq(CidrBody(s), 1, SlashAt(CidrBody(s)) - 1))
CidrPrefix(s) == DecVal(SubSeq(CidrBody(s), SlashAt(CidrBody(s)) + 1, Len(CidrBody(s))))
CidrSize(s) == Pow2(Bits(CidrVer(s)) - CidrPrefix(s))
IsCidr(s) == CidrPrefix(s) <= Bits(CidrVer(s)) /\ CidrIp(s) % CidrSize(s) = 0
CidrAddrs(s) == CidrIp(s)..(CidrIp(s) + CidrSize(s) - 1)

Last(q) == q[Len(q)]

\* the data lines of a part file
DataLines(p) == SelectSeq(files[p], LAMBDA l : l # Header)

\* the estimate of a written line: the lengths of its fields + 10
LineSize(l) == Len(l[1]) + Len(l[2]) + Len(l[3]) + Len(l[4]) + Len(l[5]) + Len(l[6]) + 10

RECURSIVE SumSizes(_)
SumSizes(ls) == IF ls = <<>> THEN 0 ELSE LineSize(Head(ls)) + SumSizes(Tail(ls))

\* the part files that exist, and those no longer written to
Parts == DOMAIN files
ClosedParts == {p \in Parts : \E q \in Parts : q > p}

RECURSIVE DataOfParts(_)
DataOfParts(n) == IF n = 0 THEN <<>> ELSE DataOfParts(n - 1) \o DataLines(n)

RECURSIVE CountDataLines(_)
CountDataLines(n) == IF n = 0 THEN 0 ELSE CountDataLines(n - 1) + Len(DataLines(n))

\* how an input row's range is wrong, if it is
BadSyntax(row) ==
    ip_address(row.ip_start).exc # "none" \/ ip_address(row.ip_end).exc # "none"
MixedFamilies(row) ==
    ~BadSyntax(row) /\ ip_address(row.ip_start).ver # ip_address(row.ip_end).ver
StartAfterEnd(row) ==
    ~BadSyntax(row) /\ ~MixedFamilies(row)
    /\ ip_address(row.ip_start).ip > ip_address(row.ip_end).ip
InvalidRange(row) == BadSyntax(row) \/ MixedFamilies(row) \/ StartAfterEnd(row)

\* the blocks of a valid range
BlocksOf(row) == ip_range_to_cidrs(row.ip_start, row.ip_end).cidrs

\* the rows a record is expected to give, from its columns
OrEmpty(v) == IF v.some THEN v.s ELSE <<>>
FirstTwo(s) == IF Len(s) <= 2 THEN s ELSE <<s[1], s[2]>>
NameOf(code) == IF code = <<"U", "S">> THEN <<"U", ".", "S", ".">> ELSE code
NullIfEmpty(v) == IF v.some /\ v.s # <<>> THEN v ELSE None
ExpectedRow(cidr, row) ==
    <<Str(cidr), Str(FirstTwo(OrEmpty(row.continent))),
      Str(UpperStr(OrEmpty(row.country))),
      Str(NameOf(UpperStr(OrEmpty(row.country)))),
      NullIfEmpty(row.stateprov), NullIfEmpty(row.city)>>
ExpectedRows(row) == [i \in DOMAIN BlocksOf(row) |-> ExpectedRow(BlocksOf(row)[i], row)]

-----------------------------------------------------------------------------
\* Properties

\* C1: for valid start <= end of one family, ip_range_to_cidrs returns a
\* non-empty list of CIDR blocks, pairwise disjoint, in ascending address
\* order, whose union is exactly the closed interval [start, end].
C1_RangeExactlyCovered ==
    \A ver \in {4, 6} : \A a, b \in 0..AllOnes(ver) :
        (/\ cidrPc = "returned"
         /\ start_ip = Str(AddrText(ver, a))
         /\ end_ip = Str(AddrText(ver, b))
         /\ a <= b)
        => LET c == cidrs.cidrs IN
           /\ cidrs.exc = "none"
           /\ c # <<>>
           /\ \A i \in DOMAIN c : CidrVer(c[i]) = ver /\ IsCidr(c[i])
           /\ UNION {CidrAddrs(c[i]) : i \in DOMAIN c} = a..b
           /\ \A i, j \in DOMAIN c : i < j => CidrAddrs(c[i]) \cap CidrAddrs(c[j]) = {}
           /\ \A i \in 1..(Len(c) - 1) : CidrIp(c[i]) < CidrIp(c[i + 1])

C1_Witness ==
    /\ cidrPc = "returned"
    /\ start_ip = Str(<<"1">>) /\ end_ip = Str(<<"4">>)
    /\ Len(cidrs.cidrs) = 3

\* C2: a record whose range is invalid (start > end, mixed families, or a
\* text that is no address) gives no rows, is counted once in error_count,
\* and the run goes on to the next record instead of aborting.
C2_InvalidRecordSkipped ==
    (consumed # <<>> /\ InvalidRange(Last(consumed)) /\ loopExit # "OSError")
    => /\ pc # "aborted" \/ loopExit = "normal"
       /\ lastRows = <<>> /\ pending = <<>>
       /\ error_count = Cardinality({i \in DOMAIN consumed : InvalidRange(consumed[i])})

\* C3 as stated: every part but the last reached max_size_bytes with its
\* final row and not before; a row about to be written finds the open part
\* below max_size_bytes; the estimate of a row is the lengths of its fields
\* + 10 and the row lies whole in one part.
C3_ClosedExactlyAtThreshold ==
    /\ \A p \in ClosedParts :
          /\ DataLines(p) # <<>>
          /\ SumSizes(DataLines(p)) >= max_size_bytes
          /\ SumSizes(SubSeq(DataLines(p), 1, Len(DataLines(p)) - 1)) < max_size_bytes
    /\ pc = "rows" => current_file_size < max_size_bytes
    /\ pc \in {"loop", "rows"} =>
          /\ outfile \in Parts
          /\ current_file_size = SumSizes(DataLines(outfile))
    /\ \A p \in Parts : \A i \in DOMAIN files[p] : Len(files[p][i]) = 6
    /\ pc \in {"loop", "rows", "merge", "done"} =>
          output_count = CountDataLines(Len(opened))

\* C3 amended: the same when max_size_bytes > 0; when max_size_bytes <= 0
\* every row closes its part, so every part but the last holds one row.
C3_ClosedAtThresholdWhenPositive ==
    /\ max_size_bytes > 0 => C3_ClosedExactlyAtThreshold
    /\ max_size_bytes <= 0 =>
          /\ \A p \in ClosedParts : Len(DataLines(p)) = 1
          /\ pc \in {"loop", "rows"} => outfile \in Parts /\ current_file_size = 0
          /\ pc \in {"loop", "rows", "merge", "done"} =>
                output_count = CountDataLines(Len(opened))

C3_Witness ==
    /\ max_size_bytes > 0
    /\ pc = "rows"
    /\ current_file_size > 0
    /\ \E p \in ClosedParts : Len(DataLines(p)) >= 2

\* C4: after the run the merged output holds the header once, as its first
\* row, followed by the data rows of the parts in ascending part order, so
\* its data-row count is the sum of the parts' data-row counts.
C4_MergedIsConcatenation ==
    pc = "done" =>
        /\ merged # <<>>
        /\ merged[1] = Header
        /\ Cardinality({i \in DOMAIN merged : merged[i] = Header}) = 1
        /\ Parts = 1..file_count
        /\ Tail(merged) = DataOfParts(file_count)
        /\ Len(merged) - 1 = CountDataLines(file_count)

C4_Witness ==
    /\ pc = "done"
    /\ file_count >= 3
    /\ \E p \in Parts : p > 1 /\ Len(files[p]) >= 2

\* C5: a new part is opened only when a further row is about to be written,
\* so once the input is read every part after the first holds a data row
\* and there is no trailing empty part.
C5_NoEmptyPart ==
    pc \in {"merge", "done"} => \A p \in Parts : p > 1 => files[p] # <<>>

\* C6: every record with a valid range gives one row per CIDR block, in
\* block order, each with continent_code = continent[:2], country_code =
\* country upper-cased, country_name from the table or the code itself,
\* region_name / city_name as read with empty turned into null.
C6_OneRowPerBlock ==
    (consumed # <<>> /\ ~InvalidRange(Last(consumed)) /\ loopExit # "OSError")
    => /\ pc # "aborted" \/ loopExit = "normal"
       /\ pc # "rows" => lastRows = ExpectedRows(Last(consumed))
       /\ pc = "rows" => lastRows \o pending = ExpectedRows(Last(consumed))

\* C7: a record with a valid range and fewer than six columns does not
\* abort the run; what it lacks counts as empty (codes and name empty,
\* region and city null) and the loop goes on.
C7_ShortRecordConverted ==
    (/\ consumed # <<>> /\ ~InvalidRange(Last(consumed))
     /\ ~Last(consumed).city.some /\ loopExit # "OSError")
    => /\ pc # "aborted" \/ loopExit = "normal"
       /\ pc # "rows" => lastRows = ExpectedRows(Last(consumed))
       /\ pc = "rows" => lastRows \o pending = ExpectedRows(Last(consumed))

\* C8: after a run without --dry-run no file lists add_toc; a file that
\* listed it has last_pipeline = "generate" and its other actions in their
\* order; a file that did not is not written; updated counts the files that
\* listed it, so a second run updates none. With --dry-run nothing is written.
RECURSIVE Without(_, _)
Without(q, a) ==
    IF q = <<>> THEN <<>>
    ELSE IF Last(q) = a THEN Without(SubSeq(q, 1, Len(q) - 1), a)
    ELSE Append(Without(SubSeq(q, 1, Len(q) - 1), a), Last(q))

HadAddToc(f) == disk0[f].has_applied /\ Contains(disk0[f].applied_actions, "add_toc")

C8_ResetAddToc ==
    /\ (tocPc = "done" /\ run = 1 /\ ~dry_run) =>
          /\ \A f \in DOMAIN disk :
                ~(disk[f].has_applied /\ Contains(disk[f].applied_actions, "add_toc"))
          /\ \A f \in DOMAIN disk : HadAddToc(f) =>
                /\ f \in written
                /\ disk[f].has_pipeline /\ disk[f].last_pipeline = "generate"
                /\ disk[f].has_applied
                /\ disk[f].applied_actions = Without(disk0[f].applied_actions, "add_toc")
          /\ \A f \in DOMAIN disk : ~HadAddToc(f) =>
                f \notin written /\ disk[f] = disk0[f]
          /\ updated = Cardinality({f \in DOMAIN disk : HadAddToc(f)})
    /\ (tocPc = "done" /\ run = 2 /\ ~prevDry) => updated = 0 /\ written = {}
    /\ (run = 1 /\ dry_run) => disk = disk0
    /\ dry_run => written = {}
    /\ (tocPc = "done" /\ run = 1 /\ dry_run) =>
          updated = Cardinality({f \in DOMAIN disk : HadAddToc(f)})

C8_Witness ==
    /\ tocPc = "done" /\ run = 2 /\ ~prevDry
    /\ prevUpdated = 1
    /\ \E f \in DOMAIN disk :
          /\ disk0[f].applied_actions = <<"add_toc", "add_links">>
          /\ disk0[f].last_pipeline = "enhance"
          /\ disk[f].applied_actions = <<"add_links">>
    /\ \E f \in DOMAIN disk : ~HadAddToc(f) /\ disk[f].last_pipeline = "enhance"

\* C9: between the turns of the main loop and after it, row_count is the
\* number of records consumed, error_count the number of them that gave no
\* block, row_count - error_count the number that gave rows, output_count the
\* number of data rows written to the parts (the blocks of the converted
\* records), which is the number of data rows of the merged output.
RECURSIVE SumBlocks(_)
SumBlocks(rows) ==
    IF rows = <<>> THEN 0 ELSE Len(BlocksOf(Head(rows))) + SumBlocks(Tail(rows))

C9_CountersConsistent ==
    pc \in {"loop", "rows", "merge", "done"} =>
        /\ row_count = Len(consumed)
        /\ error_count = Cardinality({i \in DOMAIN consumed : BlocksOf(consumed[i]) = <<>>})
        /\ row_count - error_count
              = Cardinality({i \in DOMAIN consumed : BlocksOf(consumed[i]) # <<>>})
        /\ output_count = CountDataLines(Len(opened))
        /\ output_count + Len(pending) = SumBlocks(consumed)
        /\ pc = "done" =>
              Cardinality({i \in DOMAIN merged : merged[i] # Header}) = output_count

C9_Witness ==
    /\ pc = "done"
    /\ row_count = 3 /\ error_count = 1 /\ output_count = 4
    /\ Len(merged) = 5

\* C10: at most one part file is open for writing at any time; the parts are
\* opened as 1, 2, 3, ... without a gap or a repeat; once the main loop is
\* left, normally or by an exception, no part file is open; the merged output
\* exists only after the loop ended normally.
C10_OnePartOpenInOrder ==
    /\ Cardinality(openSet) <= 1
    /\ \A i \in DOMAIN opened : opened[i] = i
    /\ openSet # {} => openSet = {Last(opened)}
    /\ loopExit # "none" => openSet = {}
    /\ pc \in {"merge", "done", "aborted"} => openSet = {}
    /\ mergedCreated => loopExit = "normal"

C10_Witness ==
    /\ pc = "aborted" /\ loopExit = "OSError"
    /\ Len(opened) >= 2
    /\ openSet = {}

-----------------------------------------------------------------------------
\* What holds of the records the two exceptions do not reach

\* a record whose range is wrong without mixing families is skipped and counted
SkippedUnlessMixed ==
    (/\ consumed # <<>> /\ InvalidRange(Last(consumed))
     /\ ~MixedFamilies(Last(consumed)) /\ loopExit # "OSError")
    => /\ pc # "aborted" \/ loopExit = "normal"
       /\ lastRows = <<>> /\ pending = <<>>
       /\ error_count = Cardinality({i \in DOMAIN consumed : InvalidRange(consumed[i])})

\* a record with a valid range and a country column gives its expected rows
RowsWhenCountryPresent ==
    (/\ consumed # <<>> /\ ~InvalidRange(Last(consumed))
     /\ Last(consumed).country.some /\ loopExit # "OSError")
    => /\ pc # "aborted" \/ loopExit = "normal"
       /\ pc # "rows" => lastRows = ExpectedRows(Last(consumed))
       /\ pc = "rows" => lastRows \o pending = ExpectedRows(Last(consumed))

====
